---- MODULE Spec2Model ----
(***************************************************************************)
(* tap-salesforce: the incremental extraction engine.                      *)
(*                                                                         *)
(* The tables of Salesforce.get_tables are described and synchronised one   *)
(* after the other by main_impl / sync (src/tap_salesforce/__init__.py)    *)
(* through Salesforce.get_records, _paginate, merge_records, _make_request *)
(* and _check_rest_quota_usage (src/tap_salesforce/client.py), with the    *)
(* bookmarks kept by State (src/tap_salesforce/state.py).                  *)
(*                                                                         *)
(* Time is counted in ticks, one tick being the resolution of a datetime.  *)
(* A second holds TicksPerSecond ticks, so that the second-resolution      *)
(* format used by construct_query is not the identity.                     *)
(***************************************************************************)
EXTENDS Integers, Sequences, FiniteSets, TLC

\* ------------------------------------------------------------- bounds
TicksPerSecond == 2
MaxTime == 5
NRec == 3
PageSize == 2
NChunks == 2
MaxTimeouts == 1
MaxShrinkTimeouts == 4
MaxRuns == 2
MaxMismatches == 1
MaxRetryMismatches == 6
MaxTables == 2
MaxStreams == 3
MaxStreamLen == 3
MaxFields == 2200
MaxChunkerFields == 4
MaxChunkerSize == 5
TotalCapacity == 4

\* -------------------------------------------------- program constants
\* backoff.on_exception(..., max_tries=5)
max_tries == 5
\* sync: "if attempt <= 5"
max_attempt == 5
\* get_records(..., shrink_window_factor: int = 2)
initial_shrink_window_factor == 2
\* Salesforce.__init__(quota_percent_total: float = 80.0)
quota_percent_total == 80
\* Salesforce.__init__(quota_percent_per_run: float = 25.0)
quota_percent_per_run == 25
\* the value of the expression timedelta(days=1).seconds: a timedelta of one
\* day is normalised to days=1, seconds=0, microseconds=0
timedelta_days_1_seconds == 0
\* timedelta(days=1).total_seconds(), the length of one day
one_day_total_seconds == 86400
\* MAX_QUERY_LENGTH = 10000
MAX_QUERY_LENGTH == 10000
\* get_records: self.field_chunker(fields, 8000)
field_chunker_size == 8000

None == -1
Times == 0..MaxTime
RecordIds == 1..NRec

VARIABLES
    dataset,        \* server: record id (primary key) -> replication key value
    tables,         \* the tables get_tables selects, in its order
    config_start,   \* args.config["start_date"]
    server,         \* environment: which responses the server may give
    max_timeouts,   \* environment: how many windows the server lets time out per run
    max_mismatches, \* environment: how many merges per sync find differing keys
    max_runs,       \* environment: how many times the tap is run
    pc,             \* "init", "tables" (main_impl's loop asks for a table),
                    \* "sync", "done" (sync returned), "finished" (main_impl
                    \* returned), "failed" (main_impl raised)
    table,          \* the index of the table main_impl is processing, 0 before
    runs,           \* number of runs of main_impl started
    error,          \* the exception that ended the run, "none" otherwise
    bookmarks,      \* State.bookmarks, in memory: stream id -> stored value
    persisted,      \* the state document written by write_state
    end_time,       \* main_impl: end_time = datetime.now(timezone.utc)
    start_time,     \* sync: start_time
    sync_end,       \* sync: end_time, the end of the window it was called for
    windows,        \* the windows sync was called for, for the current table
    state_value,    \* sync: state_value
    attempt,        \* sync: attempt
    stack,          \* get_records: the chain of generator frames
    pos,            \* records yielded by the innermost frame's query
    fetched,        \* per paginator: records received from the server
    more,           \* per paginator: next_page is not None
    tries,          \* backoff: failed attempts of the current _make_request
    metrics_http_requests,
    timeouts,       \* windows shrunk in this run
    last_total,     \* total of the usage header of the last 2xx response, else 0
    lastYield,      \* key of the last record this get_records call yielded
    lastEmit,       \* key of the last record this sync wrote
    maxDelivered,   \* largest key this sync delivered
    emitted,        \* ids of the records this sync delivered
    resumedFrom,    \* the bookmark this sync started from
    extractions,    \* calls of get_records made by this sync
    queried,        \* tables a query request was sent for in this run
    vetoed,         \* a checked response reported usage above the total quota
    sentAfterVeto,  \* a request was sent after that
    call,           \* the last call of _make_request: what it was for, the
                    \* attempts made, the status and exception of the last one
    paginators,     \* merge_records: the record streams it is called with
    merge_pc,       \* merge_records: "idle", "running", "returned", "raised"
    merge_pos,      \* merge_records: positions zip has gone through
    merged_records, \* merge_records: the records it yielded
    merge_error,    \* merge_records: the keys PrimaryKeyNotMatch names
    plan_table,     \* get_records: the table and the lengths of its field names
    plan_window,    \* get_records: start_date, end_date
    plan_pc,        \* get_records: "idle", "planned", "raised"
    queries,        \* get_records: the queries it built for its paginators
    chunker_size,   \* field_chunker: size
    yielded_chunks, \* field_chunker: the chunks it yielded
    chunker_pc      \* field_chunker: "idle", "chunked"

vars == <<dataset, tables, config_start, server, max_timeouts,
          max_mismatches, max_runs, pc, table, runs, error,
          bookmarks, persisted, end_time, start_time, sync_end, windows, state_value, attempt,
          stack, pos, fetched, more, tries, metrics_http_requests, timeouts,
          last_total, lastYield, lastEmit, maxDelivered, emitted, resumedFrom,
          extractions, queried, vetoed, sentAfterVeto, call,
          paginators, merge_pc, merge_pos, merged_records, merge_error,
          plan_table, plan_window, plan_pc, queries,
          chunker_size, yielded_chunks, chunker_pc>>

merge_vars == <<paginators, merge_pc, merge_pos, merged_records, merge_error>>

chunker_vars == <<chunker_size, yielded_chunks, chunker_pc>>

plan_vars == <<plan_table, plan_window, plan_pc, queries, chunker_vars>>

env_vars == <<dataset, tables, config_start, server, max_timeouts,
              max_mismatches, max_runs>>

\* ------------------------------------------------------------ helpers
Max(a, b) == IF a >= b THEN a ELSE b
Min(a, b) == IF a <= b THEN a ELSE b

\* round(a / b) to the nearest integer, ties to even: how timedelta(seconds=x)
\* rounds a float number of seconds to its resolution
RoundHalfEven(a, b) ==
    LET q == a \div b
        r == a % b
    IN  IF 2 * r < b THEN q
        ELSE IF 2 * r > b THEN q + 1
        ELSE IF q % 2 = 0 THEN q ELSE q + 1

\* strftime('%Y-%m-%dT%H:%M:%SZ'): the part of a second is dropped
strftime_seconds(t) == t - (t % TicksPerSecond)

\* ------------------------------------------------------------ state.py
\* value.isoformat() + "Z": every tick of the value is kept
State_format(value) == <<value, "Z">>

\* the stream ids of the state document: the tables, by their index
TableIds == 1..MaxTables

\* State(): bookmarks = {}, no stream has an entry
EmptyBookmarks == [stream_id \in TableIds |-> <<>>]

\* mutant: the bookmark is written in the format of the query
set_stream_state_seconds(doc, stream_id, value) ==
    [doc EXCEPT ![stream_id] = State_format(strftime_seconds(value))]

\* State.set_stream_state: the entry of the stream is overwritten
set_stream_state(doc, stream_id, value) ==
    [doc EXCEPT ![stream_id] = State_format(value)]

\* State.get_stream_state: None when nothing is stored for the stream, else
\* the stored text without its last character, parsed
get_stream_state(doc, stream_id) ==
    IF doc[stream_id] = <<>> THEN None
    ELSE SubSeq(doc[stream_id], 1, Len(doc[stream_id]) - 1)[1]

\* ----------------------------------------------------------- stream.py
\* Stream keeps a State and hands the bookmark calls of sync to it;
\* write_state writes the State's document to the durable state
Stream_set_stream_state(doc, stream_id, value) ==
    set_stream_state(doc, stream_id, value)

Stream_get_stream_state(doc, stream_id) == get_stream_state(doc, stream_id)

Stream_write_state(document) == document

\* ----------------------------------------------------------- the query
\* construct_query for a table with a replication key:
\*   WHERE rk >= start AND rk < end ORDER BY rk ASC, pk ASC
construct_query(start_date, end_date) ==
    [lo |-> strftime_seconds(start_date), hi |-> strftime_seconds(end_date)]

\* the server: the records a query selects, in the query's order
Before(a, b) == dataset[a] < dataset[b] \/ (dataset[a] = dataset[b] /\ a <= b)

RECURSIVE OrderBy(_)
OrderBy(S) ==
    IF S = {} THEN <<>>
    ELSE LET m == CHOOSE r \in S : \A o \in S : Before(r, o)
         IN  <<m>> \o OrderBy(S \ {m})

ServerResult(q) ==
    OrderBy({r \in RecordIds : q.lo <= dataset[r] /\ dataset[r] < q.hi})

\* ---------------------------------------------------------- the tables
\* a Table with what describe answers for it: primary_key is set, the full
\* query of its fields is longer than MAX_QUERY_LENGTH, the description lists
\* fields, replication_key is set, apply_weekly_rule is set; here the tables
\* of get_tables that are synchronised in one window
Tables ==
    [primary_key : BOOLEAN, long_query : BOOLEAN, fields : BOOLEAN,
     replication_key : {TRUE}, apply_weekly_rule : {FALSE}]

\* Table(name=..., replication_key="SystemModstamp", primary_key="Id")
KeyedTable(long) ==
    [primary_key |-> TRUE, long_query |-> long, fields |-> TRUE,
     replication_key |-> TRUE, apply_weekly_rule |-> FALSE]

\* Table(name="Task", replication_key="SystemModstamp", apply_weekly_rule=True)
WeeklyTable ==
    [primary_key |-> FALSE, long_query |-> FALSE, fields |-> TRUE,
     replication_key |-> TRUE, apply_weekly_rule |-> TRUE]

\* Table(name=...): replication_key and primary_key are None
FullTable ==
    [primary_key |-> FALSE, long_query |-> FALSE, fields |-> TRUE,
     replication_key |-> FALSE, apply_weekly_rule |-> FALSE]

\* the value of main_impl's loop variable before the first table
NoTable ==
    [primary_key |-> FALSE, long_query |-> FALSE, fields |-> FALSE,
     replication_key |-> TRUE, apply_weekly_rule |-> FALSE]

CurrentTable == IF table \in 1..Len(tables) THEN tables[table] ELSE NoTable

\* len(query) > MAX_QUERY_LENGTH for the table being synchronised
long_query == CurrentTable.long_query

\* --------------------------------------------------------- get_records
Frame(s, e, k) ==
    [start_date |-> s, end_date |-> e, shrink_window_factor |-> k,
     i |-> -1, prev_end |-> None]

\* mutant: nth is computed by integer division
SubWindowBound_floor(f, i) ==
    f.start_date + i * ((f.end_date - f.start_date) \div f.shrink_window_factor)

\* start_date + timedelta(seconds=i * nth), nth = (end - start) / factor
SubWindowBound(f, i) ==
    f.start_date
        + RoundHalfEven(i * (f.end_date - f.start_date), f.shrink_window_factor)

\* the i-th recursive call of the shrinking loop
SubWindow(f, i) ==
    Frame(SubWindowBound(f, i), SubWindowBound(f, i + 1),
          f.shrink_window_factor + 1)

\* nth < timedelta(days=1).seconds
BelowMinimumWindow(f) ==
    (f.end_date - f.start_date)
        < timedelta_days_1_seconds * TicksPerSecond * f.shrink_window_factor

\* a frame returned: its caller's loop goes on to the next sub-window, or the
\* caller returns too
RECURSIVE Unwind(_)
Unwind(stk) ==
    LET top  == stk[Len(stk)]
        rest == SubSeq(stk, 1, Len(stk) - 1)
    IN  IF rest = <<>> THEN <<>>
        ELSE LET p == rest[Len(rest)]
             IN  IF p.i + 1 < p.shrink_window_factor
                 THEN SubSeq(rest, 1, Len(rest) - 1)
                        \o << [p EXCEPT !.i = p.i + 1, !.prev_end = top.end_date],
                              SubWindow(p, p.i + 1) >>
                 ELSE Unwind(rest)

Top == stack[Len(stack)]
\* one query when it fits, else one per chunk of field_chunker
QueriesOf(t) == IF t.long_query THEN NChunks ELSE 1
NQueries == QueriesOf(CurrentTable)
Paginators == 1..NQueries
\* the records of a query without WHERE and ORDER BY, in the order the
\* server gives them: here that of their ids
ServerResultAll == [r \in RecordIds |-> r]

Result ==
    IF CurrentTable.replication_key
    THEN ServerResult(construct_query(Top.start_date, Top.end_date))
    ELSE ServerResultAll

\* mutant: a paginator asks for its next page as soon as it got a cursor
NextPaginator_eager ==
    IF \E j \in Paginators : more[j]
    THEN CHOOSE j \in Paginators : more[j]
    ELSE IF \A j \in Paginators : fetched[j] > pos THEN 0
    ELSE CHOOSE j \in Paginators : fetched[j] <= pos

\* zip(*paginators): the first paginator with no buffered record at pos, 0
\* when every paginator holds one
NextPaginator ==
    IF \A j \in Paginators : fetched[j] > pos THEN 0
    ELSE CHOOSE j \in Paginators :
            fetched[j] <= pos /\ \A h \in Paginators : h < j => fetched[h] > pos

FreshFetchedOf(t) == [j \in 1..QueriesOf(t) |-> 0]
FreshMoreOf(t) == [j \in 1..QueriesOf(t) |-> TRUE]
FreshFetched == FreshFetchedOf(CurrentTable)
FreshMore == FreshMoreOf(CurrentTable)

\* ------------------------------------------------------- _make_request
NoException == [cls |-> "none", code |-> "none"]
Exception(cls, code) == [cls |-> cls, code |-> code]

\* the exception types of the backoff.on_exception decorator
RetriedByBackoff ==
    {"ConnectionError", "Timeout", "ChunkedEncodingError", "HTTPError",
     "SalesforceFunctionalityTemporarilyUnavailableException",
     "SalesforceUnexpectedException", "SalesforceSessionExpiredException",
     "SalesforceQueryTimeoutException"}

\* SalesforceException and its subclasses (exceptions.py)
SalesforceExceptions ==
    {"SalesforceException",
     "SalesforceFunctionalityTemporarilyUnavailableException",
     "SalesforceAPIDisabledForOrganizationException",
     "SalesforceSessionExpiredException", "SalesforceUnexpectedException",
     "SalesforceQueryTimeoutException"}

\* the error bodies the server answers with; "no_error_list" is a body that
\* is JSON but no list of errors, "no_json" a body that is not JSON
ErrorBodies ==
    {[errorCode |-> "QUERY_TIMEOUT", message |-> "Your query request was running for too long"],
     [errorCode |-> "OPERATION_TOO_LARGE", message |-> "other"],
     [errorCode |-> "INVALID_SESSION_ID", message |-> "Session expired or invalid"],
     [errorCode |-> "MALFORMED_QUERY", message |-> "other"],
     [errorCode |-> "NOT_FOUND", message |-> "other"],
     [errorCode |-> "", message |-> "no_error_list"]}

\* exceptions.build_salesforce_exception; NoException stands for None
build_salesforce_exception(body) ==
    IF body.message = "no_json" THEN Exception("SalesforceException", "UNKNOWN")
    ELSE IF body.message = "no_error_list" THEN NoException
    ELSE IF body.errorCode = "FUNCTIONALITY_TEMPORARILY_UNAVAILABLE"
    THEN Exception("SalesforceFunctionalityTemporarilyUnavailableException",
                   "FUNCTIONALITY_TEMPORARILY_UNAVAILABLE")
    ELSE IF body.errorCode = "API_DISABLED_FOR_ORG"
    THEN Exception("SalesforceAPIDisabledForOrganizationException", "API_DISABLED_FOR_ORG")
    ELSE IF body.message = "Session expired or invalid"
    THEN Exception("SalesforceSessionExpiredException", "SESSION_EXPIRED")
    ELSE IF body.message = "An unexpected error occurred"
    THEN Exception("SalesforceUnexpectedException", "UNEXPECTED")
    ELSE IF body.message = "Your query request was running for too long"
    THEN Exception("SalesforceQueryTimeoutException", "QUERY_TIMEOUT")
    ELSE Exception("SalesforceException", body.errorCode)

\* the Sforce-Limit-Info header of a response: "api-usage=<used>/<total>",
\* a text of another form, or no header
Headers ==
    {[form |-> "usage", used |-> u, total |-> TotalCapacity] : u \in {1, TotalCapacity}}
        \cup {[form |-> "other", used |-> 0, total |-> 0],
              [form |-> "absent", used |-> 0, total |-> 0]}

\* mutant: the used share is compared as a ratio, not as a percentage
check_rest_quota_usage_ratio(header, requests) ==
    IF header.form = "absent" THEN Exception("TypeError", "none")
    ELSE IF header.form # "usage" THEN NoException
    ELSE IF header.used > quota_percent_total * header.total
    THEN Exception("TapSalesforceQuotaExceededException", "total")
    ELSE IF requests > quota_percent_per_run * header.total
    THEN Exception("TapSalesforceQuotaExceededException", "per_run")
    ELSE NoException

\* Salesforce._check_rest_quota_usage, after the count of requests was raised
check_rest_quota_usage(header, requests) ==
    IF header.form = "absent" THEN Exception("TypeError", "none")
    ELSE IF header.form # "usage" THEN NoException
    ELSE IF header.used * 100 > quota_percent_total * header.total
    THEN Exception("TapSalesforceQuotaExceededException", "total")
    ELSE IF requests > quota_percent_per_run * header.total
    THEN Exception("TapSalesforceQuotaExceededException", "per_run")
    ELSE NoException

NoHeader == [form |-> "absent", used |-> 0, total |-> 0]
NoBody == [errorCode |-> "", message |-> ""]

\* the status codes of the responses that are errors
ErrorStatuses == {404, 500}

\* "ok" is a response with a status from 200 to 299, "error" one with another
\* status, "ConnectionError" a request that got no response
Responses ==
    {[kind |-> "ok", status |-> 200, header |-> h, body |-> NoBody] : h \in Headers}
        \cup {[kind |-> "error", status |-> c, header |-> NoHeader, body |-> b] :
                    c \in ErrorStatuses, b \in ErrorBodies}
        \cup {[kind |-> "ConnectionError", status |-> 0, header |-> NoHeader,
                body |-> NoBody]}

\* what one attempt of _make_request raises for a response
AttemptRaises(resp, requests) ==
    IF resp.kind = "ConnectionError" THEN Exception("ConnectionError", "none")
    ELSE IF resp.kind = "error"
    THEN LET ex == build_salesforce_exception(resp.body)
         IN  IF ex # NoException THEN ex ELSE Exception("HTTPError", "none")
    ELSE check_rest_quota_usage(resp.header, requests)

\* mutant: backoff gives up one attempt later
backoff_retries_one_more(ex, n) ==
    ex.cls \in RetriedByBackoff /\ n < max_tries + 1

\* backoff.on_exception: after the n-th attempt raised ex, the call is made
\* again when ex is of a listed type and fewer than max_tries were made
backoff_retries(ex, n) ==
    ex.cls \in RetriedByBackoff /\ n < max_tries

\* no call of _make_request was made yet
NoCall ==
    [path |-> "none", attempts |-> 0, status |-> 0, raised |-> NoException,
     outcome |-> "none"]

\* the call of _make_request for path after its n-th attempt, which got a
\* response of this status and raised ex: the response is returned, backoff
\* makes the call again, or ex leaves _make_request
Call(path, status, ex, n) ==
    [path |-> path, attempts |-> n, status |-> status, raised |-> ex,
     outcome |-> IF ex = NoException THEN "returned"
                 ELSE IF backoff_retries(ex, n) THEN "retrying"
                 ELSE "raised"]

\* get_records: "except SalesforceException" and the codes it shrinks on
ShrinksOn(ex) ==
    /\ ex.cls \in SalesforceExceptions
    /\ ex.code \in {"QUERY_TIMEOUT", "OPERATION_TOO_LARGE"}

ReportsOverQuota(resp) ==
    /\ resp.kind = "ok"
    /\ resp.header.form = "usage"
    /\ resp.header.used * 100 > quota_percent_total * resp.header.total

\* ------------------------------------------------------- merge_records
\* the primary keys of the records of the streams
PrimaryKeys == {"AAA", "BBB", "CCC"}

\* the field each chunk query selects besides the primary key
ChunkFieldNames == <<"Name", "Industry", "Phone", "Fax">>

\* "primary_key = None", and what "not primary_key" tests
NoKey == ""
Falsy(key) == key = NoKey

\* "merged_record = {}"
EmptyRecord == <<>>

\* the record of primary key k in the stream of chunk j: every value names
\* the record it belongs to
ChunkRecord(j, k) == ("Id" :> k) @@ (ChunkFieldNames[j] :> k)

\* the stream of chunk j for the keys ks, in their order
ChunkStream(j, ks) == [p \in 1..Len(ks) |-> ChunkRecord(j, ks[p])]

\* the orders in which a query may enumerate records: no key twice
KeyOrders ==
    {ks \in UNION {[1..n -> PrimaryKeys] : n \in 0..MaxStreamLen} :
        \A a, b \in 1..Len(ks) : a # b => ks[a] # ks[b]}

\* mutant: the key of every record is taken for the key of the position
RECURSIVE merge_position_unchecked(_, _, _, _)
merge_position_unchecked(records, n, primary_key, merged_record) ==
    IF n > Len(records)
    THEN [raised |-> FALSE, keys |-> <<>>, merged_record |-> merged_record]
    ELSE merge_position_unchecked(records, n + 1, records[n]["Id"],
                                  records[n] @@ merged_record)

\* mutant: the merged record is replaced by each record, not updated with it
RECURSIVE merge_position_replacing(_, _, _, _)
merge_position_replacing(records, n, primary_key, merged_record) ==
    IF n > Len(records)
    THEN [raised |-> FALSE, keys |-> <<>>, merged_record |-> merged_record]
    ELSE LET record == records[n]
             key    == IF Falsy(primary_key) THEN record["Id"] ELSE primary_key
         IN  IF key # record["Id"]
             THEN [raised |-> TRUE, keys |-> <<key, record["Id"]>>,
                   merged_record |-> merged_record]
             ELSE merge_position_replacing(records, n + 1, key, record)

\* merge_records: the loop over the records of one position, from the n-th
\* on; "merged_record.update(record)" is record @@ merged_record
RECURSIVE merge_position(_, _, _, _)
merge_position(records, n, primary_key, merged_record) ==
    IF n > Len(records)
    THEN [raised |-> FALSE, keys |-> <<>>, merged_record |-> merged_record]
    ELSE LET record == records[n]
             key    == IF Falsy(primary_key) THEN record["Id"] ELSE primary_key
         IN  IF key # record["Id"]
             THEN [raised |-> TRUE, keys |-> <<key, record["Id"]>>,
                   merged_record |-> merged_record]
             ELSE merge_position(records, n + 1, key, record @@ merged_record)

\* zip(*paginators) has a next tuple: every paginator has a next record
ZipHasNext == \A j \in 1..Len(paginators) : Len(paginators[j]) > merge_pos

\* merge_records with key buffering (tests/test_merge_records.py): the
\* records of every stream are merged by key, and yielded in the order in
\* which the first stream enumerates the keys
RECURSIVE merge_records_new_key(_, _, _, _)
merge_records_new_key(streams, i, key, merged_record) ==
    IF i > Len(streams) THEN merged_record
    ELSE LET hits == {p \in 1..Len(streams[i]) : streams[i][p]["Id"] = key}
         IN  merge_records_new_key(
                 streams, i + 1, key,
                 IF hits = {} THEN merged_record
                 ELSE streams[i][CHOOSE p \in hits : TRUE] @@ merged_record)

merge_records_new(streams) ==
    [p \in 1..Len(streams[1]) |->
        merge_records_new_key(streams, 1, streams[1][p]["Id"], EmptyRecord)]

\* -------------------------------------------- get_records: the queries
\* a field is known by its position in the description of the table; the
\* description lists the primary key column first and the replication key
\* column second
FieldLength(field) == plan_table.field_lengths[field]

\* sum of the lengths of the names of the fields lo..hi that are in select
RECURSIVE NamesLength(_, _, _)
NamesLength(select, lo, hi) ==
    IF lo > hi THEN 0
    ELSE IF lo = hi THEN (IF lo \in select THEN FieldLength(lo) ELSE 0)
    ELSE LET mid == (lo + hi) \div 2
         IN  NamesLength(select, lo, mid) + NamesLength(select, mid + 1, hi)

\* len(','.join(set(fields)))
JoinLength(select) ==
    IF select = {} THEN 0
    ELSE NamesLength(select, 1, Len(plan_table.field_lengths))
            + Cardinality(select) - 1

\* the elements of a list of fields: set(fields)
FieldSet(fields) == {fields[n] : n \in 1..Len(fields)}

\* len(query) of construct_query for a table with a replication key and no
\* limit; the dates are formatted to 20 characters
QueryLength(select) ==
    LET rk == FieldLength(plan_table.replication_key)
        select_stm == 7 + JoinLength(select) + 1
        from_stm   == 5 + plan_table.name_length + 1
        where_stm  == (6 + rk + 4 + 20 + 1) + (5 + rk + 3 + 20 + 1)
        order_by   == (9 + rk + 5)
                        + (IF plan_table.primary_key # 0
                           THEN 1 + FieldLength(plan_table.primary_key) + 4
                           ELSE 0)
    IN  select_stm + 1 + from_stm + 1 + where_stm + 1 + order_by + 1

\* construct_query: what the query selects, its WHERE and ORDER BY clauses
\* and its length
construct_query_of(fields, start_date, end_date) ==
    [select   |-> FieldSet(fields),
     where    |-> construct_query(start_date, end_date),
     order_by |-> IF plan_table.primary_key # 0
                  THEN <<plan_table.replication_key, plan_table.primary_key>>
                  ELSE <<plan_table.replication_key>>,
     length   |-> QueryLength(FieldSet(fields))]

\* mutant: the length is not set back when a chunk is yielded
field_chunker_step_keeps_length(st, fields, size) ==
    LET index       == st.index + 1
        length      == st.length + FieldLength(fields[index])
        field_chunk == Append(st.field_chunk, fields[index])
    IN  IF length > size \/ index = Len(fields)
        THEN [index |-> index, length |-> length, field_chunk |-> <<>>,
              yielded |-> Append(st.yielded, field_chunk)]
        ELSE [index |-> index, length |-> length, field_chunk |-> field_chunk,
              yielded |-> st.yielded]

\* field_chunker: the body of its loop, for the next field of the list
field_chunker_step(st, fields, size) ==
    LET index       == st.index + 1
        length      == st.length + FieldLength(fields[index])
        field_chunk == Append(st.field_chunk, fields[index])
    IN  IF length > size \/ index = Len(fields)
        THEN [index |-> index, length |-> 0, field_chunk |-> <<>>,
              yielded |-> Append(st.yielded, field_chunk)]
        ELSE [index |-> index, length |-> length, field_chunk |-> field_chunk,
              yielded |-> st.yielded]

\* field_chunker: the iterations of its loop for the fields lo..hi, one
\* after the other
RECURSIVE field_chunker_loop(_, _, _, _, _)
field_chunker_loop(st, fields, size, lo, hi) ==
    IF lo > hi THEN st
    ELSE IF lo = hi THEN field_chunker_step(st, fields, size)
    ELSE LET mid  == (lo + hi) \div 2
             done == field_chunker_loop(st, fields, size, lo, mid)
         IN  IF done.index = mid
             THEN field_chunker_loop(done, fields, size, mid + 1, hi)
             ELSE done

\* field_chunker(fields, size): the chunks it yields, in order
field_chunker(fields, size) ==
    field_chunker_loop([index |-> 0, length |-> 0, field_chunk |-> <<>>,
                        yielded |-> <<>>],
                       fields, size, 1, Len(fields)).yielded

\* mutant: the key columns are not added to the chunk
chunk_fields_without_keys(field_chunk) == field_chunk

\* get_records: field_chunk.append(table.primary_key);
\* field_chunk.append(table.replication_key)
chunk_fields(field_chunk) ==
    field_chunk \o <<plan_table.primary_key, plan_table.replication_key>>

\* field_names of main_impl: the names of all fields of the table
AllFields == [n \in 1..Len(plan_table.field_lengths) |-> n]

\* ------------------------------------------------------------- actions
\* the datasets the server may hold: keys ascend by steps of 0 or 1 tick
Datasets ==
    {d \in [RecordIds -> 1..(NRec + 1)] :
        /\ d[1] \in {1, 2}
        /\ \A r \in RecordIds \ {1} : d[r] - d[r - 1] \in {0, 1}}

NowSet == {MaxTime - 1, MaxTime}

\* the server of the synchronisation scenarios: pages, windows that time out
\* and an error that ends the run
SyncResponses ==
    {r \in Responses :
        \/ r.kind = "ok" /\ r.header.form = "usage" /\ r.header.used = 1
        \/ /\ r.kind = "error"
           /\ r.status = 500
           /\ r.body.errorCode \in {"OPERATION_TOO_LARGE", "MALFORMED_QUERY"}}

\* the server of the shrinking scenarios: pages and timeouts of both kinds
ShrinkResponses ==
    {r \in Responses :
        \/ r.kind = "ok" /\ r.header.form = "usage" /\ r.header.used = 1
        \/ /\ r.kind = "error"
           /\ r.status = 500
           /\ r.body.errorCode \in {"OPERATION_TOO_LARGE", "QUERY_TIMEOUT"}}

\* the server of the merging scenarios: every request is answered with a page
PageResponses ==
    {r \in Responses : r.kind = "ok" /\ r.header.form = "usage" /\ r.header.used = 1}

\* the server of the scenarios with several tables: pages, a usage above the
\* quota, tables that are not found and errors that end the run
TablesResponses ==
    {r \in Responses :
        \/ r.kind = "ok" /\ r.header.form = "usage"
        \/ /\ r.kind = "error"
           /\ \/ r.status = 404 /\ r.body.errorCode \in {"NOT_FOUND", "MALFORMED_QUERY"}
              \/ r.body.errorCode = ""}

ServerResponses ==
    IF server = "sync" THEN SyncResponses
    ELSE IF server = "shrink" THEN ShrinkResponses
    ELSE IF server = "pages" THEN PageResponses
    ELSE IF server = "tables" THEN TablesResponses
    ELSE Responses

\* merge_records and the planning of get_records are not under way
NoMerge ==
    /\ paginators = <<>>
    /\ merge_pc = "idle"
    /\ merge_pos = 0
    /\ merged_records = <<>>
    /\ merge_error = <<>>

\* field_chunker is not under way
NoChunker ==
    /\ chunker_size = 0
    /\ yielded_chunks = <<>>
    /\ chunker_pc = "idle"

NoPlan ==
    /\ NoChunker
    /\ plan_table = [name_length |-> 0, primary_key |-> 0, replication_key |-> 0,
                     field_lengths |-> <<>>]
    /\ plan_window = <<0, 0>>
    /\ plan_pc = "idle"
    /\ queries = <<>>

InitRun ==
    /\ pc = "init"
    /\ table = 0
    /\ runs = 0
    /\ error = "none"
    /\ bookmarks = EmptyBookmarks
    /\ persisted = EmptyBookmarks
    /\ end_time = 0
    /\ start_time = None
    /\ sync_end = None
    /\ windows = <<>>
    /\ state_value = None
    /\ attempt = 0
    /\ stack = <<>>
    /\ pos = 0
    /\ fetched = FreshFetchedOf(NoTable)
    /\ more = FreshMoreOf(NoTable)
    /\ tries = 0
    /\ metrics_http_requests = 0
    /\ timeouts = 0
    /\ last_total = 0
    /\ lastYield = None
    /\ lastEmit = None
    /\ maxDelivered = None
    /\ emitted = {}
    /\ resumedFrom = None
    /\ extractions = 0
    /\ queried = {}
    /\ vetoed = FALSE
    /\ sentAfterVeto = FALSE
    /\ call = NoCall

Init ==
    /\ dataset \in Datasets
    /\ tables \in {<<KeyedTable(long)>> : long \in BOOLEAN}
    /\ config_start \in {0, 1}
    /\ server = "sync"
    /\ max_timeouts = MaxTimeouts
    /\ max_mismatches = MaxMismatches
    /\ max_runs = MaxRuns
    /\ InitRun
    /\ NoMerge
    /\ NoPlan

\* main_impl before its loop: a new client, end_time = now, the state
\* document is read
StartRun ==
    /\ pc \in {"init", "finished", "failed"}
    /\ runs < max_runs
    /\ \E now \in NowSet :
        /\ now >= end_time
        /\ end_time' = now
    /\ runs' = runs + 1
    /\ bookmarks' = persisted
    /\ pc' = "tables"
    /\ table' = 0
    /\ error' = "none"
    /\ tries' = 0
    /\ metrics_http_requests' = 0
    /\ timeouts' = 0
    /\ last_total' = 0
    /\ queried' = {}
    /\ vetoed' = FALSE
    /\ sentAfterVeto' = FALSE
    /\ call' = NoCall
    /\ UNCHANGED <<env_vars, persisted, start_time, sync_end, windows, state_value, attempt, stack,
                   pos, fetched, more, lastYield, lastEmit, maxDelivered,
                   emitted, resumedFrom, extractions>>
    /\ UNCHANGED <<merge_vars, plan_vars>>

\* the retry of sync after PrimaryKeyNotMatch: "start_time = state_value"
\* mutant: the window of the retry starts where the first one started
retry_start_time_unchanged(start, last_state_value) == start

retry_start_time(start, last_state_value) == last_state_value

\* mutant: sync retries one more time
retries_after_mismatch_one_more(n) == n <= max_attempt + 1

\* sync: "if attempt <= 5", after "attempt += 1"
retries_after_mismatch(n) == n <= max_attempt

\* mutant: the state is written on the normal return only, not in "finally"
RunFails_without_write(cls) ==
    /\ pc' = "failed"
    /\ error' = cls
    /\ persisted' = persisted
    /\ stack' = <<>>
    /\ pos' = 0
    /\ fetched' = FreshFetched
    /\ more' = FreshMore
    /\ tries' = 0

\* an exception leaves sync and main_impl: both "finally" clauses write the state
RunFails(cls) ==
    /\ pc' = "failed"
    /\ error' = cls
    /\ persisted' = Stream_write_state(bookmarks)
    /\ stack' = <<>>
    /\ pos' = 0
    /\ fetched' = FreshFetched
    /\ more' = FreshMore
    /\ tries' = 0

\* an exception leaves get_tables and main_impl, outside the "try" of main_impl
RunAborts(cls) ==
    /\ pc' = "failed"
    /\ error' = cls
    /\ tries' = 0
    /\ UNCHANGED <<table, persisted, start_time, sync_end, windows, state_value, attempt, stack,
                   pos, fetched, more, lastYield, lastEmit, maxDelivered,
                   emitted, resumedFrom, extractions>>

\* get_tables goes on to its next table ("continue"), or main_impl does
\* (a table without fields)
SkipTable ==
    /\ pc' = "tables"
    /\ table' = table + 1
    /\ tries' = 0
    /\ UNCHANGED <<error, persisted, start_time, sync_end, windows, state_value, attempt, stack,
                   pos, fetched, more, lastYield, lastEmit, maxDelivered,
                   emitted, resumedFrom, extractions>>

\* timedelta(days=7), in ticks
Week == 7 * one_day_total_seconds * TicksPerSecond

\* rrule(WEEKLY, dtstart=start_time, ...): dateutil's rrule keeps dtstart
\* without its microseconds, and every date it yields is that many weeks
\* after the dtstart it kept
rrule_dtstart(dtstart) == dtstart - (dtstart % TicksPerSecond)

\* rrule(..., until=end_time + timedelta(days=7)) yields this date
rrule_yields(time_interval) == time_interval <= end_time + Week

\* the first time_interval of main_impl's loop that differs from
\* previous_datetime, which is start_time before the first call of sync
first_time_interval(st) ==
    IF rrule_dtstart(st) = st THEN st + Week ELSE rrule_dtstart(st)

\* main_impl for a table with fields: the window is [bookmark or config
\* start, end_time), or the first window of the weekly rule; sync calls
\* get_records and asks for the first record, which builds the query and
\* raises when it is too long to be sent and cannot be split
BeginSync ==
    LET i  == table + 1
        t  == tables[i]
        b  == Stream_get_stream_state(bookmarks, i)
        st == IF b # None THEN b ELSE config_start
        en == IF t.apply_weekly_rule THEN first_time_interval(st) ELSE end_time
    IN  /\ table' = i
        /\ start_time' = st
        /\ state_value' = st
        /\ attempt' = 0
        /\ resumedFrom' = b
        /\ lastYield' = None
        /\ lastEmit' = None
        /\ maxDelivered' = None
        /\ emitted' = {}
        /\ pos' = 0
        /\ fetched' = FreshFetchedOf(t)
        /\ more' = FreshMoreOf(t)
        /\ tries' = 0
        /\ IF t.apply_weekly_rule /\ ~rrule_yields(en)
           THEN /\ pc' = "done"
                /\ persisted' = Stream_write_state(bookmarks)
                /\ stack' = <<>>
                /\ sync_end' = None
                /\ windows' = <<>>
                /\ extractions' = 0
                /\ UNCHANGED error
           ELSE /\ sync_end' = en
                /\ windows' = <<<<st, en>>>>
                /\ extractions' = 1
                /\ IF t.long_query /\ ~t.primary_key
                   THEN /\ pc' = "failed"
                        /\ error' = "QueryLengthExceedLimit"
                        /\ persisted' = Stream_write_state(bookmarks)
                        /\ stack' = <<>>
                   ELSE /\ pc' = "sync"
                        /\ stack' = <<Frame(st, en, initial_shrink_window_factor)>>
                        /\ UNCHANGED <<error, persisted>>

\* get_tables describes its next table with one attempt of _make_request and
\* yields it, skips it or raises; main_impl skips the table or calls sync
DescribeTable ==
    /\ pc \in {"tables", "done"}
    /\ table < Len(tables)
    /\ \E resp \in ServerResponses :
        LET n  == IF resp.kind = "ok" THEN metrics_http_requests + 1
                  ELSE metrics_http_requests
            ex == AttemptRaises(resp, n)
        IN  /\ metrics_http_requests' = n
            /\ last_total' = (IF resp.kind # "ok" THEN last_total
                              ELSE IF resp.header.form = "usage"
                              THEN resp.header.total ELSE 0)
            /\ vetoed' = (vetoed \/ ReportsOverQuota(resp))
            /\ sentAfterVeto' = (sentAfterVeto \/ vetoed)
            /\ call' = Call("describe", resp.status, ex, tries + 1)
            /\ IF ex = NoException
               THEN IF tables[table + 1].fields THEN BeginSync ELSE SkipTable
               ELSE IF backoff_retries(ex, tries + 1)
               THEN /\ tries' = tries + 1
                    /\ UNCHANGED <<pc, table, error, persisted, start_time, sync_end, windows,
                                   state_value, attempt, stack, pos, fetched,
                                   more, lastYield, lastEmit, maxDelivered,
                                   emitted, resumedFrom, extractions>>
               ELSE IF ex.cls = "HTTPError" /\ resp.status = 404
               THEN RunAborts("KeyError")
               ELSE IF ex.cls \in SalesforceExceptions /\ ex.code = "NOT_FOUND"
               THEN SkipTable
               ELSE RunAborts(ex.cls)
    /\ UNCHANGED <<env_vars, runs, bookmarks, end_time, timeouts, queried>>
    /\ UNCHANGED <<merge_vars, plan_vars>>

\* get_tables has no more table: main_impl returns
Finish ==
    /\ pc \in {"tables", "done"}
    /\ table = Len(tables)
    /\ pc' = "finished"
    /\ UNCHANGED <<env_vars, table, runs, error, bookmarks, persisted, end_time,
                   start_time, sync_end, windows, state_value, attempt, stack, pos, fetched, more,
                   tries, metrics_http_requests, timeouts, last_total,
                   lastYield, lastEmit, maxDelivered, emitted, resumedFrom,
                   extractions, queried, vetoed, sentAfterVeto, call>>
    /\ UNCHANGED <<merge_vars, plan_vars>>

\* get_records' handler of a timeout: the window is split and the first
\* sub-window is queried
Shrink ==
    /\ stack' = SubSeq(stack, 1, Len(stack) - 1)
                    \o << [Top EXCEPT !.i = 0], SubWindow(Top, 0) >>
    /\ pos' = 0
    /\ fetched' = FreshFetched
    /\ more' = FreshMore
    /\ tries' = 0
    /\ timeouts' = timeouts + 1
    /\ UNCHANGED <<pc, error, persisted>>

\* one attempt of _make_request by the paginator that zip is waiting for
MakeRequest ==
    /\ pc = "sync"
    /\ NextPaginator # 0
    /\ more[NextPaginator]
    /\ \E resp \in ServerResponses :
        LET j  == NextPaginator
            n  == IF resp.kind = "ok" THEN metrics_http_requests + 1
                  ELSE metrics_http_requests
            ex == AttemptRaises(resp, n)
            got == Min(Len(Result), fetched[j] + PageSize)
        IN  /\ ShrinksOn(ex) => timeouts < max_timeouts
            /\ metrics_http_requests' = n
            /\ last_total' = (IF resp.kind # "ok" THEN last_total
                              ELSE IF resp.header.form = "usage"
                              THEN resp.header.total ELSE 0)
            /\ vetoed' = (vetoed \/ ReportsOverQuota(resp))
            /\ sentAfterVeto' = (sentAfterVeto \/ vetoed)
            /\ call' = Call("query", resp.status, ex, tries + 1)
            /\ IF ex = NoException
               THEN /\ fetched' = [fetched EXCEPT ![j] = got]
                    /\ more' = [more EXCEPT ![j] = got < Len(Result)]
                    /\ tries' = 0
                    /\ UNCHANGED <<pc, error, persisted, stack, pos, timeouts>>
               ELSE IF backoff_retries(ex, tries + 1)
               THEN /\ tries' = tries + 1
                    /\ UNCHANGED <<pc, error, persisted, stack, pos, fetched,
                                   more, timeouts>>
               ELSE IF ShrinksOn(ex) /\ ~BelowMinimumWindow(Top)
               THEN Shrink
               ELSE RunFails(ex.cls) /\ UNCHANGED timeouts
    /\ queried' = queried \cup {table}
    /\ UNCHANGED <<env_vars, table, runs, bookmarks, end_time, start_time, sync_end, windows,
                   state_value, attempt, lastYield, lastEmit, maxDelivered,
                   emitted, resumedFrom, extractions>>
    /\ UNCHANGED <<merge_vars, plan_vars>>

\* every paginator holds the record at pos with the same primary key:
\* merge_records yields it, sync reads record[table.replication_key], which
\* raises KeyError for a table without replication key, writes the record
\* and sets the bookmark
Deliver ==
    /\ pc = "sync"
    /\ NextPaginator = 0
    /\ LET r   == Result[pos + 1]
           key == dataset[r]
       IN  IF CurrentTable.replication_key
           THEN /\ state_value' = key
                /\ bookmarks' = Stream_set_stream_state(bookmarks, table, key)
                /\ lastYield' = key
                /\ lastEmit' = key
                /\ maxDelivered' = Max(maxDelivered, key)
                /\ emitted' = emitted \cup {r}
                /\ pos' = pos + 1
                /\ UNCHANGED <<pc, error, persisted, stack, fetched, more, tries>>
           ELSE /\ RunFails("KeyError")
                /\ UNCHANGED <<state_value, bookmarks, lastYield, lastEmit,
                               maxDelivered, emitted>>
    /\ UNCHANGED <<env_vars, table, runs, end_time, start_time, sync_end,
                   windows, attempt, metrics_http_requests, timeouts,
                   last_total, resumedFrom, extractions, queried, vetoed,
                   sentAfterVeto, call>>
    /\ UNCHANGED <<merge_vars, plan_vars>>

\* the paginators hold records with different primary keys at pos:
\* merge_records raises PrimaryKeyNotMatch, sync retries from state_value or
\* gives up; "finally" writes the state either way
MergeMismatch ==
    /\ pc = "sync"
    /\ long_query
    /\ NextPaginator = 0
    /\ attempt < max_mismatches
    /\ attempt' = attempt + 1
    /\ persisted' = Stream_write_state(bookmarks)
    /\ IF retries_after_mismatch(attempt + 1)
       THEN /\ start_time' = retry_start_time(start_time, state_value)
            /\ stack' = <<Frame(start_time', sync_end, initial_shrink_window_factor)>>
            /\ pos' = 0
            /\ fetched' = FreshFetched
            /\ more' = FreshMore
            /\ tries' = 0
            /\ lastYield' = None
            /\ extractions' = extractions + 1
            /\ UNCHANGED <<pc, error>>
       ELSE /\ RunFails("PrimaryKeyNotMatch")
            /\ UNCHANGED <<start_time, lastYield, extractions>>
    /\ UNCHANGED <<env_vars, table, runs, bookmarks, end_time, sync_end,
                   windows, state_value, metrics_http_requests, timeouts, last_total, lastEmit,
                   maxDelivered, emitted, resumedFrom, queried, vetoed,
                   sentAfterVeto, call>>
    /\ UNCHANGED <<merge_vars, plan_vars>>

\* a paginator is exhausted: zip stops, the frame returns; when the outermost
\* frame returns, sync returns and "finally" writes the state; main_impl
\* calls sync for the next window of the weekly rule, or is done with the
\* table
Exhausted ==
    /\ pc = "sync"
    /\ NextPaginator # 0
    /\ ~more[NextPaginator]
    /\ pos' = 0
    /\ fetched' = FreshFetched
    /\ more' = FreshMore
    /\ IF Unwind(stack) # <<>>
       THEN /\ stack' = Unwind(stack)
            /\ UNCHANGED <<pc, persisted, start_time, sync_end, windows,
                           state_value, attempt, lastYield, lastEmit,
                           maxDelivered, emitted, extractions>>
       ELSE /\ persisted' = Stream_write_state(bookmarks)
            /\ IF CurrentTable.apply_weekly_rule /\ rrule_yields(sync_end + Week)
               THEN /\ start_time' = sync_end
                    /\ sync_end' = sync_end + Week
                    /\ windows' = Append(windows, <<sync_end, sync_end + Week>>)
                    /\ state_value' = sync_end
                    /\ attempt' = 0
                    /\ lastYield' = None
                    /\ lastEmit' = None
                    /\ maxDelivered' = None
                    /\ emitted' = {}
                    /\ extractions' = 1
                    /\ stack' = <<Frame(sync_end, sync_end + Week,
                                        initial_shrink_window_factor)>>
                    /\ UNCHANGED pc
               ELSE /\ pc' = "done"
                    /\ stack' = <<>>
                    /\ UNCHANGED <<start_time, sync_end, windows, state_value,
                                   attempt, lastYield, lastEmit, maxDelivered,
                                   emitted, extractions>>
    /\ UNCHANGED <<env_vars, table, runs, error, bookmarks, end_time, tries,
                   metrics_http_requests, timeouts, last_total, resumedFrom,
                   queried, vetoed, sentAfterVeto, call>>
    /\ UNCHANGED <<merge_vars, plan_vars>>

Next ==
    \/ StartRun
    \/ DescribeTable
    \/ Finish
    \/ MakeRequest
    \/ Deliver
    \/ MergeMismatch
    \/ Exhausted

Spec == Init /\ [][Next]_vars

\* the window shrinker alone: one run of a table whose query fits, against a
\* server that answers with pages or timeouts
InitShrink ==
    /\ dataset \in Datasets
    /\ tables = <<KeyedTable(FALSE)>>
    /\ config_start \in {0, 1}
    /\ server = "shrink"
    /\ max_timeouts = MaxShrinkTimeouts
    /\ max_mismatches = 0
    /\ max_runs = 1
    /\ InitRun
    /\ NoMerge
    /\ NoPlan

NextShrink ==
    \/ StartRun
    \/ DescribeTable
    \/ Finish
    \/ MakeRequest
    \/ Deliver
    \/ Exhausted

SpecShrink == InitShrink /\ [][NextShrink]_vars

\* the quota governor and the retrier: one run against a server that may give
\* every response
InitQuota ==
    /\ dataset = [r \in RecordIds |-> r]
    /\ tables \in {<<KeyedTable(long)>> : long \in BOOLEAN}
    /\ config_start \in {0, 1}
    /\ server = "any"
    /\ max_timeouts = MaxTimeouts
    /\ max_mismatches = MaxMismatches
    /\ max_runs = 1
    /\ InitRun
    /\ NoMerge
    /\ NoPlan

SpecQuota == InitQuota /\ [][Next]_vars

\* the retries of sync: one run of a table whose query is split, against a
\* server that answers every request with a page, with merges that find
\* differing keys again and again
InitMismatch ==
    /\ dataset \in Datasets
    /\ tables = <<KeyedTable(TRUE)>>
    /\ config_start \in {0, 1}
    /\ server = "pages"
    /\ max_timeouts = 0
    /\ max_mismatches = MaxRetryMismatches
    /\ max_runs = 1
    /\ InitRun
    /\ NoMerge
    /\ NoPlan

SpecMismatch == InitMismatch /\ [][Next]_vars

\* the loop of main_impl: one run over several tables, with and without a
\* primary key, fields and a query that fits
TableLists == {ts \in [1..MaxTables -> Tables] : TRUE}

InitTables ==
    /\ dataset = [r \in RecordIds |-> r]
    /\ tables \in TableLists
    /\ config_start = 0
    /\ server = "tables"
    /\ max_timeouts = 0
    /\ max_mismatches = MaxRetryMismatches
    /\ max_runs = 1
    /\ InitRun
    /\ NoMerge
    /\ NoPlan

SpecTables == InitTables /\ [][Next]_vars

\* the weekly rule: runs of a table with apply_weekly_rule against a server
\* that answers every request with a page, from configured starts with and
\* without a part of a second, up to a week before the records
WeeklyStarts == {0, 1, 0 - Week, 1 - Week}

InitWeekly ==
    /\ dataset \in Datasets
    /\ tables = <<WeeklyTable>>
    /\ config_start \in WeeklyStarts
    /\ server = "pages"
    /\ max_timeouts = 0
    /\ max_mismatches = 0
    /\ max_runs = MaxRuns
    /\ InitRun
    /\ NoMerge
    /\ NoPlan

SpecWeekly == InitWeekly /\ [][NextShrink]_vars

\* the full extraction: one run of a table without replication key, or of
\* one with, against a server that answers every request with a page
InitFull ==
    /\ dataset \in Datasets
    /\ tables \in {<<FullTable>>, <<KeyedTable(FALSE)>>}
    /\ config_start \in {0, 1}
    /\ server = "pages"
    /\ max_timeouts = 0
    /\ max_mismatches = 0
    /\ max_runs = 1
    /\ InitRun
    /\ NoMerge
    /\ NoPlan

SpecFull == InitFull /\ [][NextShrink]_vars

\* ---------------------------------------------- merge_records alone
\* no run of main_impl
NoRun ==
    /\ dataset = [r \in RecordIds |-> r]
    /\ tables = <<>>
    /\ config_start = 0
    /\ server = "pages"
    /\ max_timeouts = 0
    /\ max_mismatches = 0
    /\ max_runs = 0
    /\ InitRun

run_vars ==
    <<env_vars, pc, table, runs, error, bookmarks, persisted, end_time,
      start_time, sync_end, windows, state_value, attempt, stack, pos, fetched, more, tries,
      metrics_http_requests, timeouts, last_total, lastYield, lastEmit,
      maxDelivered, emitted, resumedFrom, extractions, queried, vetoed,
      sentAfterVeto, call>>

\* merge_records is called with the streams of two or more chunk queries
InitMerge ==
    /\ \E n \in 2..MaxStreams :
        \E orders \in [1..n -> KeyOrders] :
            paginators = [j \in 1..n |-> ChunkStream(j, orders[j])]
    /\ merge_pc = "running"
    /\ merge_pos = 0
    /\ merged_records = <<>>
    /\ merge_error = <<>>
    /\ NoPlan
    /\ NoRun

\* one iteration of "for records in zip(*paginators)": the merged record is
\* yielded or PrimaryKeyNotMatch is raised; when zip has no next tuple the
\* generator returns
MergeNext ==
    /\ merge_pc = "running"
    /\ IF ~ZipHasNext
       THEN /\ merge_pc' = "returned"
            /\ UNCHANGED <<merge_pos, merged_records, merge_error>>
       ELSE LET records == [j \in 1..Len(paginators) |-> paginators[j][merge_pos + 1]]
                row     == merge_position(records, 1, NoKey, EmptyRecord)
            IN  IF row.raised
                THEN /\ merge_pc' = "raised"
                     /\ merge_error' = row.keys
                     /\ UNCHANGED <<merge_pos, merged_records>>
                ELSE /\ merged_records' = Append(merged_records, row.merged_record)
                     /\ merge_pos' = merge_pos + 1
                     /\ UNCHANGED <<merge_pc, merge_error>>
    /\ UNCHANGED <<paginators, plan_vars, run_vars>>

SpecMerge == InitMerge /\ [][MergeNext]_vars

\* ------------------------------------------------- the queries alone
\* the lengths of the names of the fields of a table: "Id",
\* "SystemModstamp" and fields with names of one length
NameLengths == {4, 6, 40}

FieldCounts == {MaxFields \div d : d \in 1..8}

PlanTables ==
    {[name_length |-> 7, primary_key |-> pk, replication_key |-> 2,
      field_lengths |-> <<2, 14>> \o [n \in 1..c |-> l]] :
        pk \in {0, 1}, c \in FieldCounts, l \in NameLengths}

InitPlan ==
    /\ plan_table \in PlanTables
    /\ plan_window \in {<<s, e>> : s \in {0, 1}, e \in NowSet}
    /\ plan_pc = "idle"
    /\ queries = <<>>
    /\ NoChunker
    /\ NoMerge
    /\ NoRun

\* get_records up to its paginators: the query of all fields when it fits,
\* else one query per chunk of fields, else QueryLengthExceedLimit
PlanQueries ==
    /\ plan_pc = "idle"
    /\ LET query == construct_query_of(AllFields, plan_window[1], plan_window[2])
       IN  IF query.length <= MAX_QUERY_LENGTH
           THEN /\ queries' = <<query>>
                /\ plan_pc' = "planned"
           ELSE IF plan_table.primary_key # 0
           THEN LET chunks == field_chunker(AllFields, field_chunker_size)
                IN  /\ queries' = [c \in 1..Len(chunks) |->
                                      construct_query_of(chunk_fields(chunks[c]),
                                                         plan_window[1],
                                                         plan_window[2])]
                    /\ plan_pc' = "planned"
           ELSE /\ queries' = <<>>
                /\ plan_pc' = "raised"
    /\ UNCHANGED <<plan_table, plan_window, chunker_vars, merge_vars, run_vars>>

SpecPlan == InitPlan /\ [][PlanQueries]_vars

\* ---------------------------------------------- field_chunker alone
ChunkerNameLengths == {1, 2, 3}

\* lists of one to MaxChunkerFields fields, by the lengths of their names
ChunkerTables ==
    {[name_length |-> 7, primary_key |-> 0, replication_key |-> 0,
      field_lengths |-> ls] :
        ls \in UNION {[1..n -> ChunkerNameLengths] : n \in 1..MaxChunkerFields}}

InitChunker ==
    /\ plan_table \in ChunkerTables
    /\ plan_window = <<0, 0>>
    /\ plan_pc = "idle"
    /\ queries = <<>>
    /\ chunker_size \in 0..MaxChunkerSize
    /\ yielded_chunks = <<>>
    /\ chunker_pc = "idle"
    /\ NoMerge
    /\ NoRun

\* list(self.field_chunker(fields, size))
ChunkFields ==
    /\ chunker_pc = "idle"
    /\ yielded_chunks' = field_chunker(AllFields, chunker_size)
    /\ chunker_pc' = "chunked"
    /\ UNCHANGED <<plan_table, plan_window, plan_pc, queries, chunker_size,
                   merge_vars, run_vars>>

SpecChunker == InitChunker /\ [][ChunkFields]_vars

\* ------------------------------------------------------------- claims
\* the window of the running sync as main_impl passed it
SyncWindowStart == IF resumedFrom # None THEN resumedFrom ELSE config_start

\* C1: within one call of get_records the records are yielded in
\* non-decreasing replication-key order, whatever the server answers
C1_YieldOrder == [][lastYield' = None \/ lastYield' >= lastYield]_vars

\* C2: every update of the bookmark stores a value greater than or equal to
\* the value stored before it
C2_BookmarkAdvances ==
    [][\A t \in TableIds :
          get_stream_state(bookmarks', t) >= get_stream_state(bookmarks, t)]_vars

\* C3: when sync returns normally after delivering at least one record, the
\* persisted bookmark is the largest replication key it delivered
C3_BookmarkIsMaximum ==
    (pc = "done" /\ maxDelivered # None)
        => get_stream_state(persisted, table) = maxDelivered

C3_Witness ==
    /\ pc = "done"
    /\ maxDelivered # None
    /\ timeouts > 0
    /\ attempt > 0
    /\ Cardinality(emitted) > 1

\* C4: a run resumed from bookmark B emits no record whose replication key
\* is strictly less than B
C4_ResumeNotBelowBookmark ==
    (resumedFrom # None /\ lastEmit # None) => lastEmit >= resumedFrom

\* C5: when sync returns normally for the window [start, end), every record
\* with start <= key < end was emitted
C5_WindowComplete ==
    pc = "done" =>
        \A r \in RecordIds :
            (SyncWindowStart <= dataset[r] /\ dataset[r] < end_time)
                => r \in emitted

OneDay == one_day_total_seconds * TicksPerSecond

\* C6: the sub-windows of a shrunk window are contiguous and in order: the
\* first starts at s, each next one starts where the previous ended, the last
\* ends at e
C6_WindowTiling ==
    \A d \in 1..(Len(stack) - 1) :
        LET f == stack[d]
            c == stack[d + 1]
        IN  /\ f.i \in 0..(f.shrink_window_factor - 1)
            /\ c.start_date = (IF f.i = 0 THEN f.start_date ELSE f.prev_end)
            /\ c.start_date <= c.end_date
            /\ f.i = f.shrink_window_factor - 1 => c.end_date = f.end_date

C6_Witness ==
    \E d \in 1..(Len(stack) - 1) :
        /\ stack[d].shrink_window_factor = 5
        /\ stack[d].i = 4
        /\ stack[d].end_date - stack[d].start_date > 0

\* C7: a window is split only when nth = (end - start) / factor is at least
\* one day; below that the error is raised again
C7_SplitOnlyAboveOneDay ==
    \A d \in 1..Len(stack) :
        stack[d].i >= 0 =>
            stack[d].end_date - stack[d].start_date
                >= stack[d].shrink_window_factor * OneDay

\* the splits the one-day floor allows for a window of length len
RECURSIVE SplitsAllowed(_, _)
SplitsAllowed(len, k) ==
    IF len < k * OneDay THEN 0
    ELSE 1 + SplitsAllowed((len \div k) + 1, k + 1)

\* C8: the depth of the recursion of get_records is bounded by the length of
\* the window and the one-day floor
C8_DepthBounded ==
    stack # <<>> =>
        Len(stack) <= 1 + SplitsAllowed(stack[1].end_date - stack[1].start_date,
                                        initial_shrink_window_factor)

C10_PerRunQuotaVeto ==
    (pc = "sync" /\ last_total > 0)
        => metrics_http_requests * 100 <= quota_percent_per_run * last_total

\* the value sync is to restart from: the key of the record it delivered
\* last, or the start it was called with
LastCheckpoint == IF lastEmit # None THEN lastEmit ELSE SyncWindowStart

\* C11: on PrimaryKeyNotMatch sync restarts the extraction with the window
\* start set to the key of the last record it delivered and checkpointed (the
\* original start if it delivered none) and with the window end unchanged
C11_RestartFromCheckpoint ==
    [][(pc = "sync" /\ pc' = "sync" /\ attempt' = attempt + 1) =>
            /\ stack' = <<Frame(LastCheckpoint, end_time,
                                initial_shrink_window_factor)>>
            /\ end_time' = end_time
            /\ lastEmit # None => get_stream_state(persisted', table) = lastEmit]_vars

C11_Witness ==
    /\ pc = "sync"
    /\ attempt > 0
    /\ extractions > 1
    /\ lastEmit # None
    /\ lastEmit > SyncWindowStart
    /\ stack = <<Frame(lastEmit, end_time, initial_shrink_window_factor)>>
    /\ pos = 0

\* C12: for one table in one run sync extracts again at most 5 times in
\* response to PrimaryKeyNotMatch; the mismatch after that leaves sync as the
\* error of the run
C12_RetriesBounded ==
    /\ extractions <= 1 + 5
    /\ attempt <= 5 + 1
    /\ attempt > 5 => (pc = "failed" /\ error = "PrimaryKeyNotMatch")
    /\ pc = "sync" => extractions = attempt + 1

C12_Witness ==
    /\ pc = "failed"
    /\ error = "PrimaryKeyNotMatch"
    /\ extractions = 6
    /\ attempt = 6
    /\ lastEmit # None

\* C13: whenever the run ends, normally or with an error, the state was
\* written after the last update of the bookmarks: the persisted state equals
\* the bookmarks in memory
C13_FlushedOnExit ==
    pc \in {"finished", "failed"} => persisted = bookmarks

\* an error while describing the second table, after records of the first
C13_Witness ==
    /\ pc = "failed"
    /\ error = "KeyError"
    /\ table = 1
    /\ lastEmit # None
    /\ get_stream_state(persisted, 1) = lastEmit

\* C14: after sync emitted a record and before it asks for the next one, the
\* persisted state holds the key of that record
C14_PersistedAfterEveryRecord ==
    (pc = "sync" /\ lastEmit # None)
        => get_stream_state(persisted, table) = lastEmit

\* C20: a table whose query is too long and that has no primary key gets no
\* query and does not end the run: the remaining tables are processed
C20_SkipAndContinue ==
    /\ \A t \in queried : ~(tables[t].long_query /\ ~tables[t].primary_key)
    /\ ~(pc = "failed" /\ error = "QueryLengthExceedLimit")

\* the primary keys a stream enumerates, in its order
KeysOf(stream) == [p \in 1..Len(stream) |-> stream[p]["Id"]]

\* every stream enumerates the same primary keys in the same order
Aligned ==
    \A j \in 1..Len(paginators) : KeysOf(paginators[j]) = KeysOf(paginators[1])

\* C15: for streams that enumerate the same primary keys in the same order,
\* merge_records yields one record per position, in that order, and each
\* carries every field of every stream's record of that position
C15_MergeAligned ==
    (merge_pc # "idle" /\ Aligned) =>
        /\ merge_pc # "raised"
        /\ merge_pc = "returned" => Len(merged_records) = Len(paginators[1])
        /\ \A p \in 1..Len(merged_records) :
              \A j \in 1..Len(paginators) :
                  \A f \in DOMAIN paginators[j][p] :
                      /\ f \in DOMAIN merged_records[p]
                      /\ merged_records[p][f] = paginators[j][p][f]

C15_Witness ==
    /\ merge_pc = "returned"
    /\ Aligned
    /\ Len(paginators) = MaxStreams
    /\ Len(merged_records) = MaxStreamLen

\* the first position at which two streams hold records of different primary
\* keys, 0 when zip meets none
ShortestStream ==
    CHOOSE n \in 0..MaxStreamLen + 1 :
        /\ \A j \in 1..Len(paginators) : Len(paginators[j]) >= n
        /\ \E j \in 1..Len(paginators) : Len(paginators[j]) = n

MismatchAt(p) ==
    \E j \in 1..Len(paginators) : paginators[j][p]["Id"] # paginators[1][p]["Id"]

FirstMismatch ==
    IF \E p \in 1..ShortestStream : MismatchAt(p)
    THEN CHOOSE p \in 1..ShortestStream :
            MismatchAt(p) /\ \A o \in 1..(p - 1) : ~MismatchAt(o)
    ELSE 0

\* the first stream whose record at p has another key than the first stream's
FirstOther(p) ==
    CHOOSE j \in 1..Len(paginators) :
        /\ paginators[j][p]["Id"] # paginators[1][p]["Id"]
        /\ \A h \in 1..(j - 1) : paginators[h][p]["Id"] = paginators[1][p]["Id"]

\* C16: merge_records raises PrimaryKeyNotMatch, naming both keys, at the
\* first position where two streams hold different primary keys; the
\* records of the positions before it were yielded, and no yielded record
\* holds fields of records with different primary keys
C16_MismatchRaises ==
    merge_pc # "idle" =>
        /\ \A p \in 1..Len(merged_records) :
              \A f \in DOMAIN merged_records[p] :
                  merged_records[p][f] = paginators[1][p]["Id"]
        /\ merge_pc = "returned" => FirstMismatch = 0
        /\ merge_pc = "raised" =>
              /\ FirstMismatch # 0
              /\ Len(merged_records) = FirstMismatch - 1
              /\ merge_error = <<paginators[1][FirstMismatch]["Id"],
                                 paginators[FirstOther(FirstMismatch)][FirstMismatch]["Id"]>>

C16_Witness ==
    /\ merge_pc = "raised"
    /\ Len(paginators) > 2
    /\ FirstMismatch > 1
    /\ FirstOther(FirstMismatch) = Len(paginators)
    /\ Len(merged_records) = FirstMismatch - 1

\* every stream enumerates the same set of primary keys
SameKeySets ==
    \A j \in 1..Len(paginators) :
        {paginators[j][p]["Id"] : p \in 1..Len(paginators[j])}
            = {paginators[1][p]["Id"] : p \in 1..Len(paginators[1])}

\* C17: merging streams that enumerate the same set of primary keys, in
\* whatever orders, ends without PrimaryKeyNotMatch with one record per key,
\* in the order of the first stream, each with the fields of all streams
C17_ReorderedMerge ==
    (merge_pc \in {"returned", "raised"} /\ SameKeySets) =>
        /\ merge_pc = "returned"
        /\ merged_records = merge_records_new(paginators)

\* C18: every query get_records builds for the server is at most
\* MAX_QUERY_LENGTH characters long
C18_QueriesFit ==
    \A c \in 1..Len(queries) : queries[c].length <= MAX_QUERY_LENGTH

\* C19: when the query is split, every chunk query selects the primary key
\* and the replication key besides its chunk of fields, and all chunk
\* queries have the same WHERE clause and order by replication key, then
\* primary key
C19_ChunkQueries ==
    Len(queries) > 1 =>
        /\ \A c \in 1..Len(queries) :
              /\ plan_table.primary_key \in queries[c].select
              /\ plan_table.replication_key \in queries[c].select
              /\ queries[c].where = construct_query(plan_window[1], plan_window[2])
              /\ queries[c].order_by = <<plan_table.replication_key,
                                         plan_table.primary_key>>
        /\ UNION {queries[c].select : c \in 1..Len(queries)} = FieldSet(AllFields)

C19_Witness ==
    /\ plan_pc = "planned"
    /\ Len(queries) > 2
    /\ plan_window[1] # strftime_seconds(plan_window[1])

\* the last call of _make_request was a describe that reported the table as
\* not found: a NOT_FOUND error, or a 404 that describe answers with {}
DescribedNotFound ==
    /\ call.path = "describe"
    /\ call.outcome = "raised"
    /\ \/ call.raised.code = "NOT_FOUND"
       \/ call.raised.cls = "HTTPError" /\ call.status = 404

\* C21: a table the service reports as not found is skipped: the run does
\* not fail, no query was sent for the table, and main_impl's loop asks for
\* the next table
C21_NotFoundSkipped ==
    DescribedNotFound =>
        /\ pc = "tables"
        /\ error = "none"
        /\ table \notin queried

\* the errors of the transport: no response, a timeout, a truncated read, a
\* status outside 2xx without a Salesforce error in the body
TransientErrors == {"ConnectionError", "Timeout", "ChunkedEncodingError", "HTTPError"}

\* C22: a query timeout and an expired session leave _make_request after one
\* attempt, and only the errors of the transport are sent again
C22_DomainErrorsNotRetried ==
    /\ call.raised.cls \in {"SalesforceQueryTimeoutException",
                            "SalesforceSessionExpiredException"} =>
          call.outcome = "raised" /\ call.attempts = 1
    /\ call.outcome = "retrying" => call.raised.cls \in TransientErrors

\* C25: a call of _make_request makes at most max_tries attempts; an error of
\* the transport leaves it only after the last of them, and the call is over
\* once an attempt returned a response
C25_AttemptsBounded ==
    /\ call.attempts <= max_tries
    /\ tries < max_tries
    /\ (call.outcome = "raised" /\ call.raised.cls \in TransientErrors) =>
          call.attempts = max_tries
    /\ call.outcome = "retrying" =>
          call.attempts < max_tries /\ tries = call.attempts
    /\ call.outcome \in {"returned", "raised"} => tries = 0

C25_Witness ==
    /\ call.path = "query"
    /\ call.outcome = "raised"
    /\ call.raised.cls = "ConnectionError"
    /\ call.attempts = max_tries
    /\ pc = "failed"
    /\ error = "ConnectionError"

\* the pages a paginator got so far: a response without records is a page
PagesGot(j) ==
    IF fetched[j] = 0 THEN (IF more[j] THEN 0 ELSE 1)
    ELSE (fetched[j] + PageSize - 1) \div PageSize

\* C26: a paginator holds whole pages of the result in the result's order,
\* asks for a page only when the records of the pages before were consumed,
\* goes on while the last response had a cursor and stops when it had none,
\* and one response was received per page
C26_Pagination ==
    pc = "sync" =>
        /\ \A j \in Paginators :
              /\ fetched[j] <= Len(Result)
              /\ fetched[j] <= pos + PageSize
              /\ pos <= fetched[j]
              /\ more[j] => fetched[j] % PageSize = 0
              /\ (more[j] /\ fetched[j] > 0) => fetched[j] < Len(Result)
              /\ ~more[j] => fetched[j] = Len(Result)
        /\ (NQueries = 1 /\ timeouts = 0 /\ attempt = 0) =>
              metrics_http_requests = 1 + PagesGot(1)

C26_Witness ==
    /\ pc = "sync"
    /\ NQueries = 1
    /\ timeouts = 0
    /\ Len(Result) > PageSize
    /\ pos = PageSize
    /\ fetched[1] = Len(Result)
    /\ ~more[1]
    /\ metrics_http_requests = 3

\* C27: merge_records does not return having yielded fewer records than a
\* stream holds: every record of every stream is in a yielded record, or
\* the merge raised PrimaryKeyNotMatch
C27_NoSilentLoss ==
    merge_pc = "returned" =>
        \A j \in 1..Len(paginators) :
            /\ Len(merged_records) >= Len(paginators[j])
            /\ \A p \in 1..Len(paginators[j]) :
                  \A f \in DOMAIN paginators[j][p] :
                      /\ f \in DOMAIN merged_records[p]
                      /\ merged_records[p][f] = paginators[j][p][f]

\* the chunks one after the other
RECURSIVE Concatenation(_)
Concatenation(cs) ==
    IF cs = <<>> THEN <<>> ELSE Head(cs) \o Concatenation(Tail(cs))

\* the summed length of the names of the first n fields of a chunk
RECURSIVE ChunkLength(_, _)
ChunkLength(chunk, n) ==
    IF n = 0 THEN 0 ELSE ChunkLength(chunk, n - 1) + FieldLength(chunk[n])

\* C28: the chunks of field_chunker are not empty, their concatenation is
\* the list of fields, and a chunk ends with the first field that takes the
\* summed length of its names above size, or with the last field of the list
C28_ChunksPartition ==
    chunker_pc = "chunked" =>
        /\ Concatenation(yielded_chunks) = AllFields
        /\ \A c \in 1..Len(yielded_chunks) :
              /\ yielded_chunks[c] # <<>>
              /\ ChunkLength(yielded_chunks[c], Len(yielded_chunks[c]) - 1)
                    <= chunker_size
              /\ c < Len(yielded_chunks) =>
                    ChunkLength(yielded_chunks[c], Len(yielded_chunks[c]))
                        > chunker_size

C28_Witness ==
    /\ chunker_pc = "chunked"
    /\ Len(yielded_chunks) > 2
    /\ Len(yielded_chunks[1]) > 1
    /\ ChunkLength(yielded_chunks[Len(yielded_chunks)],
                   Len(yielded_chunks[Len(yielded_chunks)])) <= chunker_size

\* C23: for a table with apply_weekly_rule, the windows sync is called for
\* start at the bookmark or configured start, each starts where the one
\* before ended and spans 7 days, the last one ends after end_time and at
\* most 7 days after it, and the state is written before each next window
C23_WeeklyWindows ==
    (CurrentTable.apply_weekly_rule /\ pc \in {"sync", "done"}) =>
        /\ windows # <<>>
        /\ windows[1][1] = SyncWindowStart
        /\ \A k \in 1..Len(windows) :
              /\ windows[k][2] - windows[k][1] = Week
              /\ k > 1 => windows[k][1] = windows[k - 1][2]
        /\ pc = "done" =>
              /\ windows[Len(windows)][2] > end_time
              /\ windows[Len(windows)][2] <= end_time + Week
        /\ (pc = "sync" /\ lastEmit = None) => persisted = bookmarks

\* C24: the sync of a table without replication key delivers every record
\* of the table and returns
C24_FullExtraction ==
    (table \in 1..Len(tables) /\ ~CurrentTable.replication_key) =>
        /\ pc # "failed"
        /\ pc = "done" => emitted = RecordIds
====
